---- MODULE Spec2Model ----
(***************************************************************************)
(* Model of src/src/App.tsx: the fetch cycle started by the Continue       *)
(* button (handleContinue -> fetchGames -> fetchBestPlayerCounts), the      *)
(* React state it writes (username, isLoading, games, error) and the pure   *)
(* helpers it uses (getUniqueObjects, the NDJSON line splitter, the patch   *)
(* merge).  Every `await` of the code is a suspension point; one action of  *)
(* the model is the code that runs from one suspension point to the next.   *)
(*                                                                         *)
(* Text is modelled as a sequence of characters (one-character strings),    *)
(* a response body as a sequence of bytes.  An ASCII byte is written as     *)
(* its character; "C3" and "89" are the two bytes of the UTF-8 encoding of  *)
(* U+00C9.                                                                  *)
(*                                                                         *)
(* Specifications:                                                          *)
(*   Spec        the fetch cycle of src/src/App.tsx                         *)
(*   FilterSpec  the collection, the range slider and the best-only box     *)
(*               (filteredGames)                                            *)
(*   BatchSpec   the fetch cycle of the batch variant, src/unnamed/part_000 *)
(*   LiveSpec    the fetch cycle with every awaited promise settling        *)
(***************************************************************************)
EXTENDS Integers, Sequences, FiniteSets, TLC

\* ------------------------------------------------------------------------
\* Bounds of the model
\* ------------------------------------------------------------------------
MaxFlows == 2       \* handleContinue calls that can be in flight at once
MaxItems == 2       \* item nodes in a catalog document
MaxLines == 2       \* lines in an enrichment body

\* ------------------------------------------------------------------------
\* Program constants
\* ------------------------------------------------------------------------
MAX_RETRIES == 10
DELAY_MS == 2000
STATUS_QUEUED == 202
STATUS_OK == 200

\* the value of `error` after setError(null): a one-element sequence whose
\* element is not a character, so that it differs from every message
NULL == <<"null">>

NOT_READY_MESSAGE == <<"C","a","n","n","o","t"," ","r","e","a","d"," ","c","o","l","l","e","c","t","i","o","n"," ","f","r","o","m"," ","B","G","G","."," ","T","r","y"," ","a","g","a","i","n"," ","l","a","t","e","r",".">>
EMPTY_COLLECTION == <<"E","m","p","t","y"," ","c","o","l","l","e","c","t","i","o","n">>
STREAM_FAILED == <<"F","a","i","l","e","d"," ","t","o"," ","s","t","r","e","a","m"," ","u","p","d","a","t","e","s","."," ","P","l","e","a","s","e"," ","r","e","t","r","y",".">>
WRONG_USERNAME == <<"W","r","o","n","g"," ","u","s","e","r","n","a","m","e","?">>
NETWORK_ERROR_NEEDLE == <<"N","e","t","w","o","r","k","E","r","r","o","r">>
UNKNOWN_ID == "unknown"
UNKNOWN_NAME == "Unknown Game"

\* ------------------------------------------------------------------------
\* Inputs the environment can supply
\* ------------------------------------------------------------------------
\* messages of a rejected fetch: the one of the test suite, and the one a
\* browser produces ("NetworkError when attempting to fetch resource.")
MsgNetworkErrorSpaced == <<"N","e","t","w","o","r","k"," ","E","r","r","o","r">>
MsgNetworkErrorFirefox == <<"N","e","t","w","o","r","k","E","r","r","o","r"," ","w","h","e","n"," ","a","t","t","e","m","p","t","i","n","g"," ","t","o"," ","f","e","t","c","h"," ","r","e","s","o","u","r","c","e",".">>
RejectMessages == {MsgNetworkErrorSpaced, MsgNetworkErrorFirefox}

\* text of a <message> node of the catalog document
MsgInvalidUsername == <<"I","n","v","a","l","i","d"," ","u","s","e","r","n","a","m","e"," ","s","p","e","c","i","f","i","e","d">>

\* an attribute or child node that is missing (getAttribute / querySelector
\* give null)
MISSING == "<null>"

\* a <message> node: absent, present with empty text, present with text
MessageNodes ==
  { [present |-> FALSE, text |-> <<>>],
    [present |-> TRUE, text |-> <<>>],
    [present |-> TRUE, text |-> MsgInvalidUsername] }

\* an <item> node: its objectid attribute and the text of its <name> child
ItemNodes ==
  { [objectid |-> MISSING, name |-> MISSING],
    [objectid |-> "A", name |-> "Catan"],
    [objectid |-> "A", name |-> "Azul"] }

RECURSIVE SeqsUpTo(_, _)
SeqsUpTo(S, n) ==
  IF n = 0 THEN {<<>>}
  ELSE LET shorter == SeqsUpTo(S, n - 1)
       IN shorter \cup {Append(s, x) : s \in {t \in shorter : Len(t) = n - 1}, x \in S}

CatalogDocuments == [message : MessageNodes, items : SeqsUpTo(ItemNodes, MaxItems)]

\* lines of an enrichment body, as bytes: a record is written
\*   { id [b value] [r value] }
\* for {"id":id,"bestWith":value,"recommendedWith":value}; a value is a
\* digit d for [d], w for [1,8] or n for null
LineTexts ==
  { <<"{", "A", "b", "2", "}">>,
    <<"{", "A", "r", "3", "}">>,
    <<"{", "C3", "89", "}">>,
    <<" ">>,
    <<"{">> }

RECURSIVE JoinLines(_)
JoinLines(ls) ==
  IF ls = <<>> THEN <<>> ELSE Head(ls) \o <<"\n">> \o JoinLines(Tail(ls))

\* every line terminated by a newline, or the last one left unterminated
EnrichmentBodies ==
  LET full == {JoinLines(ls) : ls \in SeqsUpTo(LineTexts, MaxLines)}
  IN full \cup {SubSeq(b, 1, Len(b) - 1) : b \in full \ {<<>>}}

EnrichmentResponses ==
  [ok : {TRUE}, hasBody : {TRUE}, body : EnrichmentBodies]
    \cup {[ok |-> FALSE, hasBody |-> TRUE, body |-> <<>>],
          [ok |-> TRUE, hasBody |-> FALSE, body |-> <<>>]}

Usernames == {"testuser"}

\* ------------------------------------------------------------------------
\* Pure helpers
\* ------------------------------------------------------------------------
\* String.prototype.indexOf: the least 0-based index of needle in hay, or -1
indexOf(hay, needle) ==
  LET hits == {i \in 0..(Len(hay) - Len(needle)) :
                 SubSeq(hay, i + 1, i + Len(needle)) = needle}
  IN IF hits = {} THEN -1 ELSE CHOOSE i \in hits : \A j \in hits : i <= j

\* a string is truthy when it is not empty
Truthy(s) == s # <<>>

\* TextDecoder.decode(value, {stream: true}): bytes to characters; an
\* incomplete multi-byte sequence at the end of the chunk is held back in
\* `pending` for the next call, a malformed one decodes to U+FFFD
RECURSIVE decodeFrom(_, _, _)
decodeFrom(bytes, pending, out) ==
  IF bytes = <<>> THEN [text |-> out, pending |-> pending]
  ELSE LET b == Head(bytes) IN
       IF pending # <<>>
         THEN IF b = "89"
                THEN decodeFrom(Tail(bytes), <<>>, Append(out, "U+00C9"))
                ELSE decodeFrom(bytes, <<>>, Append(out, "U+FFFD"))
         ELSE IF b = "C3" THEN decodeFrom(Tail(bytes), <<b>>, out)
              ELSE IF b = "89" THEN decodeFrom(Tail(bytes), <<>>, Append(out, "U+FFFD"))
              ELSE decodeFrom(Tail(bytes), <<>>, Append(out, b))

decode(bytes, pending) == decodeFrom(bytes, pending, <<>>)

\* String.prototype.split('\n'): always at least one element, the last one
\* being the text after the last newline
RECURSIVE splitFrom(_, _, _)
splitFrom(text, cur, out) ==
  IF text = <<>> THEN Append(out, cur)
  ELSE IF Head(text) = "\n" THEN splitFrom(Tail(text), <<>>, Append(out, cur))
  ELSE splitFrom(Tail(text), Append(cur, Head(text)), out)

split(text) == splitFrom(text, <<>>, <<>>)

IsSpace(ch) == ch \in {" ", "\t", "\r", "\n"}

\* String.prototype.trim
RECURSIVE trimStart(_)
trimStart(s) == IF s # <<>> /\ IsSpace(Head(s)) THEN trimStart(Tail(s)) ELSE s

RECURSIVE trimEnd(_)
trimEnd(s) ==
  IF s # <<>> /\ IsSpace(s[Len(s)]) THEN trimEnd(SubSeq(s, 1, Len(s) - 1)) ELSE s

trim(s) == trimEnd(trimStart(s))

\* a field of a parsed record: undefined (not in the text), null, or an array
Undefined == [kind |-> "undefined", val |-> <<>>]
NullValue == [kind |-> "null", val |-> <<>>]
ArrayOf(v) == [kind |-> "array", val |-> v]

IdChars == {"A", "B", "U+00C9"}
ValueChars == {"2", "3", "w", "n"}

valueOf(ch) ==
  IF ch = "n" THEN NullValue
  ELSE IF ch = "w" THEN ArrayOf(<<1, 8>>)
  ELSE IF ch = "2" THEN ArrayOf(<<2>>) ELSE ArrayOf(<<3>>)

\* JSON.parse(line) for the record grammar above; ok = FALSE is a SyntaxError
JSONparse(line) ==
  LET t == trim(line)
      n == Len(t)
      hasB == n >= 5 /\ t[3] = "b" /\ t[4] \in ValueChars
      rAt == IF hasB THEN 5 ELSE 3
      hasR == n >= rAt + 2 /\ t[rAt] = "r" /\ t[rAt + 1] \in ValueChars
      endAt == IF hasR THEN rAt + 2 ELSE rAt
      wellFormed == /\ n >= 3
                    /\ t[1] = "{"
                    /\ t[2] \in IdChars
                    /\ n = endAt
                    /\ t[endAt] = "}"
  IN IF wellFormed
       THEN [ok |-> TRUE, id |-> t[2],
             bestWith |-> IF hasB THEN valueOf(t[4]) ELSE Undefined,
             recommendedWith |-> IF hasR THEN valueOf(t[rAt + 1]) ELSE Undefined]
       ELSE [ok |-> FALSE, id |-> "", bestWith |-> Undefined, recommendedWith |-> Undefined]

\* variant: a missing field becomes an empty array
nullish_overwrite(a, b) == IF a.kind = "array" THEN a.val ELSE <<>>

\* a ?? b: b when a is null or undefined
nullish(a, b) == IF a.kind = "array" THEN a.val ELSE b

\* the object literal of the patch: the game with bestWith / recommendedWith
\* taken from the record where it carries them
mergePatch(game, data) ==
  [game EXCEPT !.bestWith = nullish(data.bestWith, game.bestWith),
               !.recommendedWith = nullish(data.recommendedWith, game.recommendedWith)]

\* variant: the record is merged into every game
applyPatch_all(prevGames, data) ==
  [i \in 1..Len(prevGames) |-> mergePatch(prevGames[i], data)]

\* the updater passed to setGames: prevGames.map(game => ...)
applyPatch(prevGames, data) ==
  [i \in 1..Len(prevGames) |->
     IF prevGames[i].id = data.id THEN mergePatch(prevGames[i], data) ELSE prevGames[i]]

\* a || b on an attribute or text that may be missing or empty
orDefault(a, b) == IF a = MISSING \/ a = "" THEN b ELSE a

\* the callback of Array.from(gameNodes).map
mapNode(node) ==
  [id |-> orDefault(node.objectid, UNKNOWN_ID),
   name |-> orDefault(node.name, UNKNOWN_NAME),
   bestWith |-> <<>>,
   recommendedWith |-> <<>>]

mapNodes(gameNodes) == [i \in 1..Len(gameNodes) |-> mapNode(gameNodes[i])]

RECURSIVE uniqueFrom(_, _, _, _)
uniqueFrom(array, key, seen, out) ==
  IF array = <<>> THEN out
  ELSE LET value == Head(array)[key] IN
       IF value \in seen THEN uniqueFrom(Tail(array), key, seen, out)
       ELSE uniqueFrom(Tail(array), key, seen \cup {value}, Append(out, Head(array)))

\* variant: no deduplication
getUniqueObjects_all(array, key) == array

getUniqueObjects(array, key) == uniqueFrom(array, key, {}, <<>>)

idsOf(gs) == [i \in 1..Len(gs) |-> gs[i].id]

\* variant: the partial last line is dropped at the chunk boundary
nextBuffer_dropped(lines) == <<>>

\* the part of the buffer kept for the next chunk
nextBuffer(lines) == lines[Len(lines)]

\* the for loop over lines[0 .. length-2]: every non-blank line is parsed
\* and its patch applied; a SyntaxError leaves the loop (threw), the patches
\* of the lines before it stay applied
RECURSIVE forEachLine(_, _, _, _)
forEachLine(lines, i, gs, dispatched) ==
  IF i > Len(lines) - 1 THEN [games |-> gs, dispatched |-> dispatched, threw |-> FALSE]
  ELSE LET line == lines[i] IN
       IF Truthy(trim(line))
         THEN LET data == JSONparse(line) IN
              IF data.ok
                THEN forEachLine(lines, i + 1, applyPatch(gs, data), Append(dispatched, line))
                ELSE [games |-> gs, dispatched |-> dispatched, threw |-> TRUE]
         ELSE forEachLine(lines, i + 1, gs, dispatched)

\* one iteration of the read loop on a chunk `value`
processChunk(buffer, pending, gs, value) ==
  LET decoded == decode(value, pending)
      lines == split(buffer \o decoded.text)
      looped == forEachLine(lines, 1, gs, <<>>)
  IN [games |-> looped.games,
      dispatched |-> looped.dispatched,
      threw |-> looped.threw,
      buffer |-> IF looped.threw THEN buffer \o decoded.text ELSE nextBuffer(lines),
      pending |-> decoded.pending]

\* variant: the ends of the range are excluded
withinRange_exclusive(n, range) == n > range[1] /\ n < range[2]

\* n >= playersRange[0] && n <= playersRange[1]
withinRange(n, range) == n >= range[1] /\ n <= range[2]

\* Array.prototype.some with the range test
RECURSIVE some(_, _)
some(values, range) ==
  IF values = <<>> THEN FALSE
  ELSE IF withinRange(Head(values), range) THEN TRUE
  ELSE some(Tail(values), range)

\* the callback of games.filter
keepsGame(game, range, best) ==
  IF ~best
    THEN some(game.bestWith, range) \/ some(game.recommendedWith, range)
    ELSE some(game.bestWith, range)

RECURSIVE filterFrom(_, _, _, _)
filterFrom(gs, range, best, out) ==
  IF gs = <<>> THEN out
  ELSE filterFrom(Tail(gs), range, best,
                  IF keepsGame(Head(gs), range, best) THEN Append(out, Head(gs)) ELSE out)

\* const filteredGames = games.filter(...), evaluated on every render
filteredGames(gs, range, best) == filterFrom(gs, range, best, <<>>)

\* the polling loop of fetchGames
whileCondition(retryCount) == retryCount < MAX_RETRIES
isQueued(status) == status = STATUS_QUEUED
\* variant: the ceiling test fires one retry early
ceilingReached_early(retryCount) == retryCount >= MAX_RETRIES - 1
ceilingReached(retryCount) == retryCount = MAX_RETRIES

\* variant: the needle is only found past the first character
errorShown_pastStart(message) ==
  IF indexOf(message, NETWORK_ERROR_NEEDLE) > 0 THEN WRONG_USERNAME ELSE message

\* the catch clause of handleContinue
errorShown(message) ==
  IF indexOf(message, NETWORK_ERROR_NEEDLE) > -1 THEN WRONG_USERNAME ELSE message

\* ------------------------------------------------------------------------
\* State
\* ------------------------------------------------------------------------
VARIABLES
  username,    \* useState<string>("")
  isLoading,   \* useState<boolean>(false)
  games,       \* useState<Game[]>([])
  error,       \* useState<string | null>(null)
  playersRange, \* useState([2, 5])
  bestOnly,    \* useState(true)
  flows,       \* the handleContinue calls: position and locals of each
  order        \* the calls started and not yet cleared away, oldest first

vars == <<username, isLoading, games, error, playersRange, bestOnly, flows, order>>

\* the state of the filter controls; no statement of handleContinue,
\* fetchGames or fetchBestPlayerCounts reads or writes it
filterVars == <<playersRange, bestOnly>>

Flows == 1..MaxFlows

\* entries of the trace of a polling loop
GET == [op |-> "GET", ms |-> 0]
delay(ms) == [op |-> "delay", ms |-> ms]

\* pc: idle, awaitCatalog (await fetch(ownedGamesEndpoint)), delay (await
\* delay(2000)), awaitText (await response.text()), awaitEnrich (await
\* fetch(endpoint, ...)), reading (await reader.read()), done (returned; what
\* the record still holds is the history of the cycle, cleared when the next
\* cycle starts)
IdleFlow ==
  [pc |-> "idle",
   retryCount |-> 0,       \* let retryCount
   queued |-> 0,           \* 202 responses received by the polling loop
   lastStatus |-> 0,       \* status of the last catalog response
   polls |-> <<>>,         \* catalog requests issued and delays waited, in order
   noItems |-> FALSE,      \* gameNodes.length == 0
   gameList |-> <<>>,      \* const games: Game[] of fetchGames
   seeded |-> FALSE,       \* setGames(getUniqueObjects(games, 'id')) has run
   stale |-> FALSE,        \* a cycle started later has seeded the collection
   posts |-> 0,            \* enrichment requests issued
   ids |-> <<>>,           \* the ids of the enrichment request in flight
   answer |-> "none",      \* the enrichment response: ok, notOk or noBody
   thrown |-> NULL,        \* message of the error fetchGames threw
   outcome |-> "none",
   body |-> <<>>,          \* bytes of the enrichment response body
   sent |-> 0,             \* how many of them the reader has delivered
   chunks |-> 0,           \* chunks delivered: 0, 1, 2, or 3 for more
   buffer |-> <<>>,        \* let buffer
   pending |-> <<>>,       \* bytes the TextDecoder holds back
   dispatched |-> <<>>]    \* lines parsed and applied with setGames

CatalogFailures == {"notReady", "upstreamMessage", "rejected"}

Init ==
  /\ username = ""
  /\ isLoading = FALSE
  /\ games = <<>>
  /\ error = NULL
  /\ playersRange = <<2, 5>>
  /\ bestOnly = TRUE
  /\ flows = [c \in Flows |-> IdleFlow]
  /\ order = <<>>

\* ------------------------------------------------------------------------
\* The UI
\* ------------------------------------------------------------------------
handleUsernameChange(value) ==
  /\ username' = value
  /\ UNCHANGED <<isLoading, games, error, flows, order>>
  /\ UNCHANGED filterVars

\* variant: the button stays enabled while a cycle is loading
continueDisabled_idleOnly == username = ""

\* disabled={!username || isLoading}
continueDisabled == username = "" \/ isLoading

\* variant: the collection of the previous cycle is not cleared
clearedGames_kept == games

\* setGames([]) at the start of handleContinue
clearedGames == <<>>

\* variant: handleContinue does not raise the loading flag
loadingStarted_skipped == isLoading

\* setIsLoading(true)
loadingStarted == TRUE

\* variant: the finally clause leaves the loading flag as it is
loadingCleared_skipped == isLoading

\* finally { setIsLoading(false) }
loadingCleared == FALSE

InFlight(c) == flows[c].pc \notin {"idle", "done"}

\* click on Continue: handleContinue up to its first await, the first
\* catalog request of fetchGames.  The call takes the first record that is
\* not in flight.
handleContinue ==
  /\ ~continueDisabled
  /\ \E c \in Flows :
       /\ ~InFlight(c)
       /\ \A d \in 1..(c - 1) : InFlight(d)
       /\ flows' = [d \in Flows |->
                     IF d = c
                       THEN [IdleFlow EXCEPT !.pc = "awaitCatalog", !.polls = <<GET>>]
                     ELSE IF InFlight(d) THEN flows[d]
                     ELSE IdleFlow]
       /\ order' = Append(SelectSeq(order, InFlight), c)
  /\ games' = clearedGames
  /\ isLoading' = loadingStarted
  /\ error' = NULL
  /\ UNCHANGED username
  /\ UNCHANGED filterVars

\* ------------------------------------------------------------------------
\* fetchGames
\* ------------------------------------------------------------------------
\* an error thrown by fetchGames: the catch and finally of handleContinue
catalogFails(c, f, kind, message) ==
  /\ error' = errorShown(message)
  /\ isLoading' = loadingCleared
  /\ flows' = [flows EXCEPT ![c] =
                 [f EXCEPT !.pc = "done", !.outcome = kind, !.thrown = message]]
  /\ UNCHANGED <<username, games, order>>

\* lines 83-88, reached by the break and by the loop test failing
afterLoop(c, f) ==
  IF ceilingReached(f.retryCount)
    THEN catalogFails(c, f, "notReady", NOT_READY_MESSAGE)
    ELSE /\ flows' = [flows EXCEPT ![c] = [f EXCEPT !.pc = "awaitText"]]
         /\ UNCHANGED <<username, isLoading, games, error, order>>

\* a catalog request resolves: the while loop from its test to the next await
catalogResponds(c, status) ==
  /\ flows[c].pc = "awaitCatalog"
  /\ LET f == [flows[c] EXCEPT
                 !.lastStatus = status,
                 !.queued = IF status = STATUS_QUEUED THEN @ + 1 ELSE @]
     IN IF whileCondition(f.retryCount)
          THEN IF isQueued(status)
                 THEN /\ flows' = [flows EXCEPT ![c] =
                                     [f EXCEPT !.retryCount = @ + 1,
                                               !.pc = "delay",
                                               !.polls = Append(@, delay(DELAY_MS))]]
                      /\ UNCHANGED <<username, isLoading, games, error, order>>
                 ELSE afterLoop(c, f)
          ELSE afterLoop(c, f)
  /\ UNCHANGED filterVars

\* a catalog request rejects
catalogRejects(c, message) ==
  /\ flows[c].pc = "awaitCatalog"
  /\ catalogFails(c, flows[c], "rejected", message)
  /\ UNCHANGED filterVars

\* the 2-second timer fires: response = await fetch(ownedGamesEndpoint)
delayElapsed(c) ==
  /\ flows[c].pc = "delay"
  /\ flows' = [flows EXCEPT ![c].pc = "awaitCatalog", ![c].polls = Append(@, GET)]
  /\ UNCHANGED <<username, isLoading, games, error, order>>
  /\ UNCHANGED filterVars

\* call d was started before call c
StartedBefore(d, c) ==
  \E i, j \in 1..Len(order) : i < j /\ order[i] = d /\ order[j] = c

\* response.text() resolves, lines 89-118: parse the document, seed the
\* collection, issue the enrichment request.  The locals of the polling
\* loop are dead from here on.
textResolves(c, doc) ==
  /\ flows[c].pc = "awaitText"
  /\ LET errorMessage == IF doc.message.present THEN doc.message.text ELSE <<>>
         gameNodes == doc.items
         gameList == mapNodes(gameNodes)
         f == [flows[c] EXCEPT !.retryCount = 0, !.queued = 0, !.lastStatus = 0,
                               !.polls = <<>>]
     IN IF Truthy(errorMessage)
          THEN catalogFails(c, flows[c], "upstreamMessage", errorMessage)
          ELSE /\ error' = IF Len(gameNodes) = 0 THEN EMPTY_COLLECTION ELSE error
               /\ games' = getUniqueObjects(gameList, "id")
               /\ flows' = [d \in Flows |->
                              IF d = c
                                THEN [f EXCEPT !.pc = "awaitEnrich",
                                               !.noItems = (Len(gameNodes) = 0),
                                               !.gameList = gameList,
                                               !.seeded = TRUE,
                                               !.posts = @ + 1,
                                               !.ids = idsOf(gameList)]
                              ELSE IF InFlight(d) /\ StartedBefore(d, c)
                                THEN [flows[d] EXCEPT !.stale = TRUE]
                              ELSE flows[d]]
               /\ UNCHANGED <<username, isLoading, order>>
  /\ UNCHANGED filterVars

\* ------------------------------------------------------------------------
\* fetchBestPlayerCounts
\* ------------------------------------------------------------------------
\* the catch clause of fetchBestPlayerCounts, then the return through
\* fetchGames to the finally of handleContinue
streamFails(c, f, kind) ==
  /\ error' = STREAM_FAILED
  /\ isLoading' = loadingCleared
  /\ flows' = [flows EXCEPT ![c] = [f EXCEPT !.pc = "done", !.outcome = kind]]

\* variant: only the status of the response is tested
responseUnusable_statusOnly(response) == ~response.ok

\* !response.ok || !response.body
responseUnusable(response) == ~response.ok \/ ~response.hasBody

\* what the enrichment endpoint answered
answerOf(response) ==
  IF ~response.ok THEN "notOk" ELSE IF ~response.hasBody THEN "noBody" ELSE "ok"

\* the enrichment request resolves; the game list of fetchGames was only
\* needed for the request body and is dead from here on
enrichResponds(c, response) ==
  /\ flows[c].pc = "awaitEnrich"
  /\ IF responseUnusable(response)
       THEN /\ streamFails(c, [flows[c] EXCEPT !.gameList = <<>>, !.ids = <<>>,
                                                !.answer = answerOf(response)],
                           "transport")
            /\ UNCHANGED <<username, games, order>>
       ELSE /\ flows' = [flows EXCEPT ![c] =
                           [@ EXCEPT !.pc = "reading", !.body = response.body,
                                     !.buffer = <<>>, !.gameList = <<>>, !.ids = <<>>,
                                     !.answer = answerOf(response)]]
            /\ UNCHANGED <<username, isLoading, games, error, order>>
  /\ UNCHANGED filterVars

\* the enrichment request rejects
enrichRejects(c) ==
  /\ flows[c].pc = "awaitEnrich"
  /\ streamFails(c, [flows[c] EXCEPT !.gameList = <<>>, !.ids = <<>>], "transport")
  /\ UNCHANGED <<username, games, order>>
  /\ UNCHANGED filterVars

\* variant: a SyntaxError undoes the patches of its chunk
committed_rolledBack(prevGames, r) == IF r.threw THEN prevGames ELSE r.games

\* the collection after an iteration: every updater passed to setGames
\* before a throw has been queued and is applied
committed(prevGames, r) == r.games

\* reader.read() resolves with a chunk, the next n >= 1 bytes of the body:
\* one iteration of the read loop
readChunk(c) ==
  /\ flows[c].pc = "reading"
  /\ \E n \in 1..(Len(flows[c].body) - flows[c].sent) :
     \E r \in {processChunk(flows[c].buffer, flows[c].pending, games,
                     SubSeq(flows[c].body, flows[c].sent + 1, flows[c].sent + n))} :
       LET f == flows[c]
           g == [f EXCEPT !.sent = @ + n,
                          !.chunks = IF @ < 3 THEN @ + 1 ELSE @,
                          !.buffer = r.buffer,
                          !.pending = r.pending,
                          !.dispatched = @ \o r.dispatched]
       IN /\ games' = committed(games, r)
          /\ IF r.threw
               THEN streamFails(c, g, "parseError")
               ELSE /\ flows' = [flows EXCEPT ![c] = g]
                    /\ UNCHANGED <<isLoading, error>>
          /\ UNCHANGED <<username, order>>
  /\ UNCHANGED filterVars

\* reader.read() resolves with done: true after the whole body
readDone(c) ==
  /\ flows[c].pc = "reading"
  /\ flows[c].sent = Len(flows[c].body)
  /\ isLoading' = loadingCleared
  /\ flows' = [flows EXCEPT ![c].pc = "done", ![c].outcome = "complete"]
  /\ UNCHANGED <<username, games, error, order>>
  /\ UNCHANGED filterVars

\* reader.read() rejects (the connection breaks); the response is abandoned
\* with the locals of the read loop
readRejects(c) ==
  /\ flows[c].pc = "reading"
  /\ streamFails(c, [flows[c] EXCEPT !.body = <<>>, !.sent = 0, !.chunks = 0,
                                      !.buffer = <<>>, !.pending = <<>>],
                 "readError")
  /\ UNCHANGED <<username, games, order>>
  /\ UNCHANGED filterVars

\* ------------------------------------------------------------------------
\* Specification
\* ------------------------------------------------------------------------
Next ==
  \/ \E value \in Usernames : handleUsernameChange(value)
  \/ handleContinue
  \/ \E c \in Flows, status \in {STATUS_QUEUED, STATUS_OK} : catalogResponds(c, status)
  \/ \E c \in Flows, message \in RejectMessages : catalogRejects(c, message)
  \/ \E c \in Flows : delayElapsed(c)
  \/ \E c \in Flows, doc \in CatalogDocuments : textResolves(c, doc)
  \/ \E c \in Flows, response \in EnrichmentResponses : enrichResponds(c, response)
  \/ \E c \in Flows : enrichRejects(c)
  \/ \E c \in Flows : readChunk(c)
  \/ \E c \in Flows : readDone(c)
  \/ \E c \in Flows : readRejects(c)

Spec == Init /\ [][Next]_vars

\* ------------------------------------------------------------------------
\* The filter: the collection as setGames builds it, the range slider and
\* the best-only checkbox.  The filter controls and the fetch cycle share
\* no state but `games`, which the cycle writes with the three setGames
\* calls below.
\* ------------------------------------------------------------------------
SLIDER_MIN == 1
SLIDER_MAX == 8

\* values the range slider reports: [low, high] with low <= high
SliderValues ==
  {newValue \in (SLIDER_MIN..SLIDER_MAX) \X (SLIDER_MIN..SLIDER_MAX) :
     newValue[1] <= newValue[2]}

\* catalog items and enrichment records for two games
FilterItemNodes == ItemNodes \cup {[objectid |-> "B", name |-> "Azul"]}

FilterLines ==
  { <<"{", "A", "b", "2", "}">>,
    <<"{", "A", "r", "3", "}">>,
    <<"{", "B", "b", "w", "}">>,
    <<"{", "B", "r", "2", "}">> }

handlePlayersRangeChange(newValue) ==
  /\ playersRange' = newValue
  /\ UNCHANGED <<username, isLoading, games, error, bestOnly, flows, order>>

toggleBestOnly ==
  /\ bestOnly' = ~bestOnly
  /\ UNCHANGED <<username, isLoading, games, error, playersRange, flows, order>>

\* setGames([])
clearGames ==
  /\ games' = clearedGames
  /\ UNCHANGED <<username, isLoading, error, playersRange, bestOnly, flows, order>>

\* setGames(getUniqueObjects(games, 'id')) on the mapped item nodes
seedGames(gameNodes) ==
  /\ games' = getUniqueObjects(mapNodes(gameNodes), "id")
  /\ UNCHANGED <<username, isLoading, error, playersRange, bestOnly, flows, order>>

\* one non-blank line of the stream: JSON.parse and setGames(prevGames => ...)
patchGames(line) ==
  /\ Truthy(trim(line))
  /\ JSONparse(line).ok
  /\ games' = applyPatch(games, JSONparse(line))
  /\ UNCHANGED <<username, isLoading, error, playersRange, bestOnly, flows, order>>

FilterNext ==
  \/ \E newValue \in SliderValues : handlePlayersRangeChange(newValue)
  \/ toggleBestOnly
  \/ clearGames
  \/ \E gameNodes \in SeqsUpTo(FilterItemNodes, MaxItems) : seedGames(gameNodes)
  \/ \E line \in FilterLines : patchGames(line)

FilterSpec == Init /\ [][FilterNext]_vars

\* ------------------------------------------------------------------------
\* The batch variant, src/unnamed/part_000: fetchGames returns the list and
\* handleContinue stores it; the player counts come as one JSON array.  The
\* state is that of the streaming variant, a call being a record of `flows`.
\* ------------------------------------------------------------------------
BATCH_MAX_RETRIES == 5

PLAYER_COUNTS_FAILED == <<"F","a","i","l","e","d"," ","t","o"," ","f","e","t","c","h"," ","p","l","a","y","e","r"," ","c","o","u","n","t","s","."," ","T","r","y"," ","a","g","a","i","n"," ","l","a","t","e","r",".">>

\* elements of the array response.json() gives
BatchRecords ==
  {JSONparse(line) : line \in {<<"{", "A", "b", "2", "}">>,
                               <<"{", "A", "r", "3", "}">>,
                               <<"{", "B", "b", "w", "}">>,
                               <<"{", "U+00C9", "}">>}}

BatchCounts == SeqsUpTo(BatchRecords, MaxLines)

\* catalog documents with items for two games
BatchDocuments == [message : MessageNodes, items : SeqsUpTo(FilterItemNodes, MaxItems)]

Batch_handleUsernameChange(value) == handleUsernameChange(value)

\* handleContinue up to its first await, the fetch at the top of while (true)
Batch_handleContinue == handleContinue

\* an error thrown by fetchGames: setError((err as Error).message), finally
Batch_fails(c, f, kind, message) ==
  /\ error' = message
  /\ isLoading' = FALSE
  /\ flows' = [flows EXCEPT ![c] =
                 [f EXCEPT !.pc = "done", !.outcome = kind, !.thrown = message]]
  /\ UNCHANGED <<username, games, order, playersRange, bestOnly>>

\* the test and body of the inner loop, entered with retryCount and the one
\* response of the call: up to the next await, or past the loop
Batch_innerLoop(c, f) ==
  IF f.retryCount < BATCH_MAX_RETRIES
    THEN IF isQueued(f.lastStatus)
           THEN /\ flows' = [flows EXCEPT ![c] =
                               [f EXCEPT !.retryCount = @ + 1,
                                         !.pc = "delay",
                                         !.polls = Append(@, delay(DELAY_MS))]]
                /\ UNCHANGED <<username, isLoading, games, error, order,
                               playersRange, bestOnly>>
           ELSE /\ flows' = [flows EXCEPT ![c] = [f EXCEPT !.pc = "awaitText"]]
                /\ UNCHANGED <<username, isLoading, games, error, order,
                               playersRange, bestOnly>>
    ELSE Batch_fails(c, f, "notReady", NOT_READY_MESSAGE)

\* the catalog request resolves: let retryCount = 0 and the inner loop
Batch_catalogResponds(c, status) ==
  /\ flows[c].pc = "awaitCatalog"
  /\ Batch_innerLoop(c, [flows[c] EXCEPT
                           !.lastStatus = status,
                           !.retryCount = 0,
                           !.queued = IF status = STATUS_QUEUED THEN @ + 1 ELSE @])

Batch_catalogRejects(c, message) ==
  /\ flows[c].pc = "awaitCatalog"
  /\ Batch_fails(c, flows[c], "rejected", message)

\* the 2-second timer fires: back to the test of the inner loop
Batch_delayElapsed(c) ==
  /\ flows[c].pc = "delay"
  /\ Batch_innerLoop(c, flows[c])

\* response.text() resolves: parse, map the items, request the player counts
Batch_textResolves(c, doc) ==
  /\ flows[c].pc = "awaitText"
  /\ LET errorMessage == IF doc.message.present THEN doc.message.text ELSE <<>>
         gameList == mapNodes(doc.items)
     IN IF Truthy(errorMessage)
          THEN Batch_fails(c, flows[c], "upstreamMessage", errorMessage)
          ELSE /\ flows' = [flows EXCEPT ![c] =
                              [@ EXCEPT !.pc = "awaitEnrich",
                                        !.gameList = gameList,
                                        !.posts = @ + 1,
                                        !.ids = idsOf(gameList)]]
               /\ UNCHANGED <<username, isLoading, games, error, order,
                              playersRange, bestOnly>>

\* the request of fetchBestPlayerCounts resolves
Batch_countsRespond(c, ok) ==
  /\ flows[c].pc = "awaitEnrich"
  /\ IF ~ok
       THEN Batch_fails(c, [flows[c] EXCEPT !.gameList = <<>>, !.ids = <<>>],
                        "transport", PLAYER_COUNTS_FAILED)
       ELSE /\ flows' = [flows EXCEPT ![c].pc = "awaitJson", ![c].ids = <<>>]
            /\ UNCHANGED <<username, isLoading, games, error, order,
                           playersRange, bestOnly>>

Batch_countsReject(c, message) ==
  /\ flows[c].pc = "awaitEnrich"
  /\ Batch_fails(c, [flows[c] EXCEPT !.gameList = <<>>, !.ids = <<>>],
                 "transport", message)

\* bestPlayerCounts.find((b) => b.id === game.id): the first match, or none
Batch_find(counts, id) ==
  LET hits == {k \in 1..Len(counts) : counts[k].id = id}
  IN IF hits = {} THEN Undefined
     ELSE counts[CHOOSE k \in hits : \A l \in hits : k <= l]

\* the callback of games.forEach
Batch_mergeGame(game, counts) ==
  LET fetchedGame == Batch_find(counts, game.id) IN
  IF fetchedGame = Undefined THEN game
  ELSE [game EXCEPT
          !.bestWith = IF fetchedGame.bestWith # Undefined
                         THEN fetchedGame.bestWith.val ELSE @,
          !.recommendedWith = IF fetchedGame.recommendedWith # Undefined
                                THEN fetchedGame.recommendedWith.val ELSE @]

\* response.json() resolves: merge, return games, setGames(gamesList), finally
Batch_jsonResolves(c, counts) ==
  /\ flows[c].pc = "awaitJson"
  /\ games' = [i \in 1..Len(flows[c].gameList) |->
                 Batch_mergeGame(flows[c].gameList[i], counts)]
  /\ isLoading' = FALSE
  /\ flows' = [flows EXCEPT ![c].pc = "done", ![c].outcome = "complete",
                            ![c].gameList = <<>>]
  /\ UNCHANGED <<username, error, order, playersRange, bestOnly>>

BatchNext ==
  \/ \E value \in Usernames : Batch_handleUsernameChange(value)
  \/ Batch_handleContinue
  \/ \E c \in Flows, status \in {STATUS_QUEUED, STATUS_OK} : Batch_catalogResponds(c, status)
  \/ \E c \in Flows, message \in RejectMessages : Batch_catalogRejects(c, message)
  \/ \E c \in Flows : Batch_delayElapsed(c)
  \/ \E c \in Flows, doc \in BatchDocuments : Batch_textResolves(c, doc)
  \/ \E c \in Flows, ok \in BOOLEAN : Batch_countsRespond(c, ok)
  \/ \E c \in Flows, message \in RejectMessages : Batch_countsReject(c, message)
  \/ \E c \in Flows, counts \in BatchCounts : Batch_jsonResolves(c, counts)

BatchSpec == Init /\ [][BatchNext]_vars

\* ------------------------------------------------------------------------
\* Progress: every promise a cycle awaits settles.  A catalog or enrichment
\* request resolves or rejects, the timer fires, response.text() resolves,
\* reader.read() delivers a chunk, the end of the stream or an error.  The
\* user is under no obligation to type or click.
\* ------------------------------------------------------------------------
\* the answers of the environment, one for each way a cycle can go: a
\* document with a message, with no item, with one item; a response that is
\* not ok, has no body, carries a record, a malformed line, or both
LiveDocuments ==
  {doc \in CatalogDocuments :
     /\ Len(doc.items) <= 1
     /\ doc.message.present => doc.message.text # <<>> /\ doc.items = <<>>
     /\ \A i \in 1..Len(doc.items) : doc.items[i].name = "Catan"}

LiveResponses ==
  {response \in EnrichmentResponses :
     response.body \in {<<>>,
                        <<"{", "A", "b", "2", "}", "\n">>,
                        <<"{", "\n">>,
                        <<"{", "A", "b", "2", "}", "\n", "{", "\n">>}}

catalogSettles(c) ==
  \/ \E status \in {STATUS_QUEUED, STATUS_OK} : catalogResponds(c, status)
  \/ \E message \in RejectMessages : catalogRejects(c, message)

textSettles(c) == \E doc \in LiveDocuments : textResolves(c, doc)

enrichSettles(c) ==
  \/ \E response \in LiveResponses : enrichResponds(c, response)
  \/ enrichRejects(c)

readSettles(c) == readChunk(c) \/ readDone(c) \/ readRejects(c)

\* a call awaits one promise at a time
settles(c) ==
  \/ catalogSettles(c)
  \/ delayElapsed(c)
  \/ textSettles(c)
  \/ enrichSettles(c)
  \/ readSettles(c)

Progress == \A c \in Flows : WF_vars(settles(c))

LiveNext ==
  \/ \E value \in Usernames : handleUsernameChange(value)
  \/ handleContinue
  \/ \E c \in Flows, status \in {STATUS_QUEUED, STATUS_OK} : catalogResponds(c, status)
  \/ \E c \in Flows, message \in RejectMessages : catalogRejects(c, message)
  \/ \E c \in Flows : delayElapsed(c)
  \/ \E c \in Flows, doc \in LiveDocuments : textResolves(c, doc)
  \/ \E c \in Flows, response \in LiveResponses : enrichResponds(c, response)
  \/ \E c \in Flows : enrichRejects(c)
  \/ \E c \in Flows : readChunk(c)
  \/ \E c \in Flows : readDone(c)
  \/ \E c \in Flows : readRejects(c)

LiveSpec == Init /\ [][LiveNext]_vars /\ Progress

\* ------------------------------------------------------------------------
\* Properties
\* ------------------------------------------------------------------------
Ended(c) == flows[c].pc = "done"
CatalogFailed(c) == Ended(c) /\ flows[c].outcome \in CatalogFailures
Requests(polls) == SelectSeq(polls, LAMBDA e : e.op = "GET")
Delays(polls) == SelectSeq(polls, LAMBDA e : e.op = "delay")

\* a request, then k times a 2-second delay and a request
AlternatingPolls(k) ==
  [i \in 1..(2 * k + 1) |-> IF i % 2 = 1 THEN GET ELSE delay(2000)]

\* C1: when the first k < MAX_RETRIES catalog responses of a cycle are 202 and
\* the next one is not, the cycle has issued exactly k+1 catalog requests with
\* exactly one 2-second delay between consecutive requests, and goes on to
\* parse that response instead of failing with the not-ready error.
C1_PollsUntilReady ==
  \A c \in Flows :
    LET f == flows[c] IN
    (f.lastStatus = STATUS_OK /\ f.queued < MAX_RETRIES)
      => /\ f.polls = AlternatingPolls(f.queued)
         /\ Len(Requests(f.polls)) = f.queued + 1
         /\ f.pc = "awaitText" \/ (f.pc = "done" /\ f.outcome = "upstreamMessage")
         /\ f.thrown # NOT_READY_MESSAGE

C1_Witness ==
  \E c \in Flows :
    /\ flows[c].pc = "awaitText"
    /\ flows[c].queued = MAX_RETRIES - 1
    /\ Len(Delays(flows[c].polls)) = MAX_RETRIES - 1

\* C2: once MAX_RETRIES consecutive catalog responses of a cycle were 202,
\* the cycle has issued at most MAX_RETRIES catalog requests, and when it has
\* ended it has failed with the not-ready error.
C2_CeilingBoundsRequests ==
  \A c \in Flows :
    flows[c].queued >= MAX_RETRIES
      => /\ Len(Requests(flows[c].polls)) <= MAX_RETRIES
         /\ Ended(c) => flows[c].thrown = NOT_READY_MESSAGE

\* C3: a cycle whose catalog stage failed has issued no enrichment request
\* and ends with an empty collection.
C3_CatalogFailureLeavesNothing ==
  \A c \in Flows :
    CatalogFailed(c) => flows[c].posts = 0 /\ ~flows[c].seeded /\ games = <<>>

C3_Witness ==
  \E c \in Flows :
    /\ CatalogFailed(c)
    /\ flows[c].outcome = "upstreamMessage"
    /\ flows[c].thrown = MsgInvalidUsername
    /\ error = MsgInvalidUsername

\* C4: a cycle whose catalog document had zero item nodes ends with an empty
\* collection and without having issued an enrichment request.
C4_EmptyCatalogSkipsEnrichment ==
  \A c \in Flows :
    (Ended(c) /\ flows[c].seeded /\ flows[c].noItems)
      => games = <<>> /\ flows[c].posts = 0

\* the lines the read loop dispatches when the whole body is one chunk
SingleChunkDispatch(body) == processChunk(<<>>, <<>>, <<>>, body).dispatched

\* C5: however the enrichment body was cut into chunks, the lines parsed and
\* dispatched by the end of the stream are those dispatched when the same
\* body arrives as a single chunk.
C5_ChunkInvariance ==
  \A c \in Flows :
    (Ended(c) /\ flows[c].outcome \in {"complete", "parseError"})
      => flows[c].dispatched = SingleChunkDispatch(flows[c].body)

C5_Witness ==
  \E c \in Flows :
    /\ Ended(c)
    /\ flows[c].outcome = "complete"
    /\ flows[c].chunks = 3
    /\ Len(flows[c].dispatched) = 2
    /\ \E i \in 1..Len(flows[c].body) : flows[c].body[i] = "C3"

RecordForA == <<"{", "A", "b", "2", "}">>
PatchesFor(c, id) == SelectSeq(flows[c].dispatched, LAMBDA line : JSONparse(line).id = id)

\* C6: when the enrichment body is the single record {"id":"A","bestWith":[2]}
\* for a seeded game A, with or without a newline after it, and was delivered
\* in two chunks, exactly one patch for A has been applied when the stream has
\* ended.
C6_SplitRecordAppliedOnce ==
  \A c \in Flows :
    ( /\ Ended(c)
      /\ flows[c].outcome = "complete"
      /\ flows[c].chunks = 2
      /\ flows[c].body \in {RecordForA, RecordForA \o <<"\n">>}
      /\ \E i \in 1..Len(games) : games[i].id = "A" )
      => Len(PatchesFor(c, "A")) = 1

\* the records a step has added to the dispatched lines of cycle c
NewRecords(c) ==
  LET old == flows[c].dispatched
      new == flows'[c].dispatched
  IN [j \in 1..(Len(new) - Len(old)) |-> JSONparse(new[Len(old) + j])]

\* C7: a step that applies enrichment records leaves the bestWith of a game
\* unchanged when none of the records applied to that game carries bestWith,
\* and likewise its recommendedWith.
C7_AbsentFieldsKept ==
  [][\A c \in Flows :
       (flows[c].pc = "reading" /\ flows'[c].dispatched # flows[c].dispatched)
         => /\ Len(games') = Len(games)
            /\ \A i \in 1..Len(games) :
                 LET mine == SelectSeq(NewRecords(c), LAMBDA d : d.id = games[i].id) IN
                 /\ (\A j \in 1..Len(mine) : mine[j].bestWith = Undefined)
                      => games'[i].bestWith = games[i].bestWith
                 /\ (\A j \in 1..Len(mine) : mine[j].recommendedWith = Undefined)
                      => games'[i].recommendedWith = games[i].recommendedWith]_vars

C7_Witness ==
  \E c \in Flows :
    /\ flows[c].dispatched = <<RecordForA, <<"{", "A", "r", "3", "}">> >>
    /\ \E i \in 1..Len(games) :
         /\ games[i].id = "A"
         /\ games[i].bestWith = <<2>>
         /\ games[i].recommendedWith = <<3>>

\* the elements of list that no earlier element shares its id with, in order
FirstOccurrences(list) ==
  LET F[i \in 0..Len(list)] ==
        IF i = 0 THEN <<>>
        ELSE IF \E j \in 1..(i - 1) : list[j].id = list[i].id THEN F[i - 1]
        ELSE Append(F[i - 1], list[i])
  IN F[Len(list)]

\* C8: no two records of the collection share an identifier, in any state;
\* and the collection a cycle has just seeded holds, for each distinct
\* identifier of the catalog items, exactly the first item with it, in
\* document order.
C8_UniqueIdentifiers ==
  /\ \A i, j \in 1..Len(games) : games[i].id = games[j].id => i = j
  /\ \A c \in Flows :
       flows[c].pc = "awaitEnrich"
         => /\ games = FirstOccurrences(flows[c].gameList)
            /\ {games[i].id : i \in 1..Len(games)}
                 = {flows[c].gameList[i].id : i \in 1..Len(flows[c].gameList)}

C8_Witness ==
  \E c \in Flows :
    /\ flows[c].pc = "awaitEnrich"
    /\ Len(flows[c].gameList) = 2
    /\ flows[c].gameList[1].id = flows[c].gameList[2].id
    /\ flows[c].gameList[1].name # flows[c].gameList[2].name
    /\ Len(games) = 1
    /\ games[1].name = flows[c].gameList[1].name

\* C9: a cycle applies no patch once a cycle started after it has seeded the
\* collection.
C9_CycleIsolation ==
  [][\A c \in Flows :
       flows[c].stale => flows'[c].dispatched = flows[c].dispatched]_vars

C9_Witness ==
  \E c \in Flows :
    /\ flows[c].pc = "reading"
    /\ flows[c].dispatched # <<>>
    /\ username # ""
    /\ continueDisabled
    /\ \A d \in Flows : ~flows[d].stale

ContainsNetworkError(message) ==
  \E i \in 1..Len(message) :
    /\ i + 11 <= Len(message)
    /\ SubSeq(message, i, i + 11) = NETWORK_ERROR_NEEDLE

\* the failing request is the last entry of the cycle's trace and no
\* enrichment request followed it
NothingAfterFailure(c) ==
  /\ flows[c].posts = 0
  /\ flows[c].polls # <<>>
  /\ flows[c].polls[Len(flows[c].polls)] = GET

\* C10 as stated: when the catalog stage of a cycle failed, the error shown at
\* the end of the cycle is the failure's own message, whatever the message,
\* and no request was issued after the failing one.
C10_ErrorShownVerbatim ==
  \A c \in Flows :
    CatalogFailed(c) => error = flows[c].thrown /\ NothingAfterFailure(c)

\* C10 amended: when the catalog stage of a cycle failed, the error shown at
\* the end of the cycle is the failure's own message, unless that message
\* contains "NetworkError", in which case it is "Wrong username?"; no request
\* was issued after the failing one.
C10_ErrorShownUnlessNetworkError ==
  \A c \in Flows :
    CatalogFailed(c)
      => /\ ContainsNetworkError(flows[c].thrown) => error = WRONG_USERNAME
         /\ ~ContainsNetworkError(flows[c].thrown) => error = flows[c].thrown
         /\ NothingAfterFailure(c)

C10_Witness ==
  \E c \in Flows :
    /\ CatalogFailed(c)
    /\ flows[c].outcome = "rejected"
    /\ flows[c].thrown = MsgNetworkErrorFirefox
    /\ error = WRONG_USERNAME

\* every game of the collection has empty bestWith and recommendedWith
Unenriched(gs) ==
  \A i \in 1..Len(gs) : gs[i].bestWith = <<>> /\ gs[i].recommendedWith = <<>>

HasValueIn(values, range) ==
  \E k \in 1..Len(values) : range[1] <= values[k] /\ values[k] <= range[2]

\* select(games, range, mode) says game g is shown
Selected(g, range, best) ==
  IF best THEN HasValueIn(g.bestWith, range)
  ELSE HasValueIn(g.bestWith, range) \/ HasValueIn(g.recommendedWith, range)

\* the list shown in the current state
Visible == filteredGames(games, playersRange, bestOnly)

\* position of the game with this id in the collection
PositionOf(id) == CHOOSE i \in 1..Len(games) : games[i].id = id

\* C12: in every state, after every seed, patch and change of the controls,
\* the visible list holds a game of the current collection exactly when, in
\* BestOnly mode, some bestWith value of it lies in [range.min, range.max],
\* or, in BestOrRecommended mode, some bestWith or recommendedWith value does;
\* each such game is listed once, in the order of the collection, and the
\* list is empty for an empty collection.
C12_VisibleIsSelect ==
  /\ \A i \in 1..Len(games) :
       Selected(games[i], playersRange, bestOnly)
         <=> \E k \in 1..Len(Visible) : Visible[k] = games[i]
  /\ \A k \in 1..Len(Visible) : \E i \in 1..Len(games) : Visible[k] = games[i]
  /\ \A k, l \in 1..Len(Visible) :
       k < l => PositionOf(Visible[k].id) < PositionOf(Visible[l].id)
  /\ games = <<>> => Visible = <<>>

C12_Witness ==
  /\ ~bestOnly
  /\ playersRange = <<3, 7>>
  /\ Len(games) = 2
  /\ games[1].id = "B" /\ games[1].bestWith = <<1, 8>> /\ games[1].recommendedWith = <<>>
  /\ games[2].id = "A" /\ games[2].bestWith = <<2>> /\ games[2].recommendedWith = <<3>>
  /\ Visible = <<games[2]>>

\* the collection with every bestWith and recommendedWith emptied: what the
\* seed of the cycle held, since patches change no other field
Blank(gs) == [i \in 1..Len(gs) |-> [gs[i] EXCEPT !.bestWith = <<>>, !.recommendedWith = <<>>]]

\* the lines of a whole body
LinesOf(body) == split(decode(body, <<>>).text)

NonBlank(line) == trim(line) # <<>>
Malformed(line) == NonBlank(line) /\ ~JSONparse(line).ok

\* the patches of lines[1..n] applied in order, blank lines skipped
ApplyLines(gs, lines, n) ==
  LET F[k \in 0..n] ==
        IF k = 0 THEN gs
        ELSE IF NonBlank(lines[k]) THEN applyPatch(F[k - 1], JSONparse(lines[k]))
        ELSE F[k - 1]
  IN F[n]

\* the records of a sequence of dispatched lines applied in order
ApplyRecords(gs, records) ==
  LET F[k \in 0..Len(records)] ==
        IF k = 0 THEN gs ELSE applyPatch(F[k - 1], records[k])
  IN F[Len(records)]

\* C13: when the stream of a cycle was read up to a line j on which
\* JSON.parse failed (all lines before j being well-formed or blank), the
\* collection at the end of the cycle is the seeded collection with the
\* patches of the non-blank lines before j applied in order; and the step in
\* which the parse fails only adds the patches of the lines it parsed to the
\* collection it found.
C13_ParseFailureKeepsPatches ==
  /\ [](\A c \in Flows :
          (Ended(c) /\ flows[c].outcome = "parseError")
            => LET lines == LinesOf(flows[c].body) IN
               \E j \in 1..(Len(lines) - 1) :
                 /\ Malformed(lines[j])
                 /\ \A k \in 1..(j - 1) : ~Malformed(lines[k])
                 /\ games = ApplyLines(Blank(games), lines, j - 1)
                 /\ flows[c].dispatched = SelectSeq(SubSeq(lines, 1, j - 1), NonBlank))
  /\ [][\A c \in Flows :
          (flows[c].pc = "reading" /\ flows'[c].outcome = "parseError")
            => games' = ApplyRecords(games, NewRecords(c))]_vars

C13_Witness ==
  \E c \in Flows :
    /\ Ended(c)
    /\ flows[c].outcome = "parseError"
    /\ flows[c].body = <<"{", "A", "b", "2", "}", "\n", "{", "\n">>
    /\ flows[c].chunks = 1
    /\ Len(games) = 1
    /\ games[1].bestWith = <<2>>
    /\ error = STREAM_FAILED

\* no record of the sequence carries this id
NoRecordFor(records, id) == \A j \in 1..Len(records) : records[j].id # id

\* C14: a step that applies enrichment records keeps the number and order of
\* the games and every game's id and name, and leaves every field of a game
\* whose id no applied record carries unchanged; when the applied records
\* match no game at all, the collection is unchanged and, unless a later line
\* of the same chunk is malformed, no error is raised and the stream is read on.
C14_PatchFrame ==
  [][\A c \in Flows :
       (flows[c].pc = "reading" /\ flows'[c].dispatched # flows[c].dispatched)
         => /\ Len(games') = Len(games)
            /\ \A i \in 1..Len(games) :
                 /\ games'[i].id = games[i].id
                 /\ games'[i].name = games[i].name
                 /\ NoRecordFor(NewRecords(c), games[i].id) => games'[i] = games[i]
            /\ (\A i \in 1..Len(games) : NoRecordFor(NewRecords(c), games[i].id))
                 => /\ games' = games
                    /\ flows'[c].outcome # "parseError"
                         => error' = error /\ flows'[c].pc = "reading"]_vars

C14_Witness ==
  \E c \in Flows :
    /\ Ended(c)
    /\ flows[c].outcome = "complete"
    /\ flows[c].dispatched = << <<"{", "A", "b", "2", "}">>, <<"{", "U+00C9", "}">> >>
    /\ Len(games) = 2
    /\ games[1] = [id |-> UNKNOWN_ID, name |-> UNKNOWN_NAME,
                   bestWith |-> <<>>, recommendedWith |-> <<>>]
    /\ games[2].id = "A"
    /\ games[2].bestWith = <<2>>
    /\ error = NULL

\* C15: a cycle in flight eventually ends with the loading flag cleared,
\* whatever its outcome, provided every awaited promise settles; and no
\* polling loop waits more than MAX_RETRIES delays.
C15_CycleEnds ==
  /\ \A c \in Flows : InFlight(c) ~> (Ended(c) /\ ~isLoading)
  /\ [](\A c \in Flows : Len(Delays(flows[c].polls)) <= MAX_RETRIES)

C15_Witness ==
  \E c \in Flows :
    /\ Ended(c)
    /\ flows[c].outcome = "notReady"
    /\ Len(Delays(flows[c].polls)) = MAX_RETRIES
    /\ ~isLoading

\* the calls in flight
CyclesInFlight == {c \in Flows : InFlight(c)}

\* C16: while a cycle is in flight isLoading is true, so that each of its
\* catalog requests after the first, its enrichment request, its seed and its
\* patches happen in a state where isLoading is true; a cycle starts, with
\* its first catalog request, only from a state where isLoading is false and
\* sets it; and at most one cycle is in flight in any state.
C16_LoadingCoversCycle ==
  /\ [](\A c \in Flows : InFlight(c) => isLoading)
  /\ [](Cardinality(CyclesInFlight) <= 1)
  /\ [][\A c \in Flows :
          /\ (~InFlight(c) /\ InFlight(c)') => ~isLoading /\ isLoading'
          /\ ( /\ InFlight(c)
               /\ \/ flows'[c].pc = "awaitCatalog" /\ flows[c].pc = "delay"
                  \/ flows'[c].posts > flows[c].posts
                  \/ flows'[c].seeded /\ ~flows[c].seeded
                  \/ flows'[c].dispatched # flows[c].dispatched )
              => isLoading]_vars

C16_Witness ==
  \E c \in Flows :
    /\ flows[c].pc = "reading"
    /\ flows[c].seeded
    /\ flows[c].posts = 1
    /\ Len(flows[c].dispatched) = 2
    /\ isLoading
    /\ CyclesInFlight = {c}

\* C17: while the enrichment request of a cycle whose catalog document had at
\* least one item is in flight, it is the only one the cycle has issued, the
\* collection has been seeded, and the identifiers it carries are those of
\* the seeded collection, each once, in the order of the collection.
C17_RequestCarriesSeededIds ==
  \A c \in Flows :
    (flows[c].pc = "awaitEnrich" /\ ~flows[c].noItems)
      => /\ flows[c].posts = 1
         /\ flows[c].seeded
         /\ flows[c].ids = idsOf(games)

\* C18: in the batch variant every delay that has elapsed is followed by a
\* catalog request, and a cycle fails with the not-ready error only after
\* BATCH_MAX_RETRIES responses were 202, so that a 202 followed by a ready
\* response gets parsed.
C18_BatchReissuesRequest ==
  \A c \in Flows :
    LET f == flows[c] IN
    /\ \A i \in 1..Len(f.polls) :
         f.polls[i] = delay(DELAY_MS)
           => IF i < Len(f.polls) THEN f.polls[i + 1] = GET ELSE f.pc = "delay"
    /\ (Ended(c) /\ f.outcome = "notReady") => f.queued >= BATCH_MAX_RETRIES

====
